---- MODULE Spec2Model ----
(***************************************************************************)
(* A model of the shared-resource coordination layer of dex-bot:           *)
(*   - shared/token_manager.py  SharedTokenManager (the token-list cache   *)
(*     coordinator every bot thread calls into), and                       *)
(*   - bot/webhook.py  OptimizedWebhookManager (the per-bot notification   *)
(*     dispatcher: breaker, batch buffer, batch timers, heartbeat).        *)
(* Every bot thread is a process with a program counter; data_lock is      *)
(* modelled by its owner, so the interleavings are those the lock allows.  *)
(***************************************************************************)
EXTENDS Integers, Sequences, FiniteSets, TLC

(***************************************************************************)
(* Bounds of the model.                                                    *)
(***************************************************************************)
\* bots of the general coordinator specification are BotNames[1..NumBots]
NumBots == 2
\* bots of the four-bot scenario are BotNames[1..NumScenarioBots]
NumScenarioBots == 4
\* get_tokens_for_bot invocations in one behaviour
MaxCalls == 2
\* clock advances of TickMinutes each
MaxTicks == 2

(***************************************************************************)
(* Program constants (minutes for the coordinator's clock).                *)
(***************************************************************************)
refresh_interval == 30
\* one clock advance of the model; the 60 s wait timeout is below it
TickMinutes == 20

BotNames == <<"A", "B", "C", "D", "E">>
Bots == {BotNames[i] : i \in 1..NumBots}
ScenarioBots == {BotNames[i] : i \in 1..NumScenarioBots}
Factories == {"F1", "F2"}
None == "None"

(***************************************************************************)
(* The data source: what the factory contracts answer.  Listing(f, t) is   *)
(* getAllTokens() of factory f at time t, each address with the state      *)
(* getTokenState answers for it: factory F1 lists one trading token, a     *)
(* second one (resumed) from minute 20 on, and its first token is halted   *)
(* from minute 40 on; factory F2 lists one trading token.                  *)
(***************************************************************************)
Addresses == {"0xA1", "0xA2", "0xB1"}
Lower(a) == CASE a = "0xA1" -> "0xa1"
              [] a = "0xA2" -> "0xa2"
              [] a = "0xB1" -> "0xb1"
              [] OTHER -> a
NameOf(a) == CASE a = "0xA1" -> "Alpha"
               [] a = "0xA2" -> "Beta"
               [] OTHER -> "Gamma"
SymbolOf(a) == CASE a = "0xA1" -> "ALP"
                 [] a = "0xA2" -> "BET"
                 [] OTHER -> "GAM"
\* the factory a token address was created by
TokenFactory(a) == IF a = "0xB1" THEN "F2" ELSE "F1"
Listing(f, t) ==
    IF f = "F1"
    THEN IF t < 20 THEN << [address |-> "0xA1", state |-> 1] >>
         ELSE IF t < 40
         THEN << [address |-> "0xA1", state |-> 1], [address |-> "0xA2", state |-> 4] >>
         ELSE << [address |-> "0xA1", state |-> 3], [address |-> "0xA2", state |-> 4] >>
    ELSE << [address |-> "0xB1", state |-> 1] >>

VARIABLES
    \* ---- SharedTokenManager fields (token_manager.py 54-88)
    tokens, tradeable_tokens, last_refresh, refresh_in_progress,
    factory_contract, current_factory_address, coordinator_bot,
    tokens_loaded, loading_event, stats, registered_bots, data_lock,
    \* ---- the calling threads and the environment
    pc, force_arg, ret, now,
    \* ---- history of the run, read only by the properties
    fetched, calls, invalidated, mustFetch, lastFetch, leader_left, forced_call,
    \* ---- what the callers hold
    held,
    \* ---- the observer of concurrent calls (ScenarioSpec only)
    cohort, cohortOpen, cohortFetches, scen

mgrVars == << tokens, tradeable_tokens, last_refresh, refresh_in_progress,
              factory_contract, current_factory_address, coordinator_bot,
              tokens_loaded, loading_event, stats, registered_bots, data_lock >>
envVars == << pc, force_arg, ret, now >>
histVars == << fetched, calls, invalidated, mustFetch, lastFetch, leader_left,
               forced_call >>
obsVars == << cohort, cohortOpen, cohortFetches, scen >>
refVars == << held >>

VARIABLES
    \* ---- OptimizedWebhookManager fields (webhook.py 35-64)
    last_heartbeat_sent, adaptive_heartbeat_interval,
    consecutive_heartbeat_failures, last_significant_activity,
    pending_updates, batch_timer, webhook_stats, last_failure_time,
    \* ---- its threads and the environment: time.time() in seconds, the wake-up
    \* ---- times of the sleeping flush_timer threads in the order they were
    \* ---- started, the wake-up time of the heartbeat_worker thread
    clock, timer_threads, hb_wake,
    \* ---- what the last step did, read only by the properties: the network
    \* ---- request it made, the action send_update was called with
    request, last_send,
    \* ---- the interval heartbeat_worker computed last (0: none yet)
    computed_interval,
    \* ---- history of the run, read only by the properties
    sends, enq_count, flush_count, gaps_ok, last_enqueue, size_flush_ok,
    hb_failed,
    \* ---- the number of updates the flushes so far have sent or summarised
    flushed_events,
    \* ---- the time at which the oldest update of the buffer was queued
    batch_start,
    \* ---- the answer of the endpoint to the last direct delivery and the
    \* ---- number of requests.post calls the delivery made (DeliverySpec only)
    delivery

whProgVars == << last_heartbeat_sent, adaptive_heartbeat_interval,
                 consecutive_heartbeat_failures, last_significant_activity,
                 pending_updates, batch_timer, webhook_stats, last_failure_time,
                 timer_threads >>
whStepVars == << request, last_send >>
whHistVars == << computed_interval, sends, enq_count, flush_count, gaps_ok, last_enqueue,
                 size_flush_ok, hb_failed, flushed_events, batch_start, delivery >>
VARIABLES
    \* ---- SimpleSharedTokenLoader fields (simple_token_loader.py 31-46)
    simple_tokens, simple_last_loaded, simple_is_loading, simple_loading_event,
    simple_factory_contract, simple_stats,
    \* ---- what the last step of the simple loader did, read only by the
    \* ---- properties: "cached", "loaded", "failed", "nofactory", or "none"
    simple_step,
    \* ---- the SharedTokenManager class and the threads constructing it
    \* ---- (token_manager.py 37-53): the number of objects __new__ has
    \* ---- created, whether the object has the attribute _initialized,
    \* ---- whether it has its fields, each thread's position in its
    \* ---- SharedTokenManager() call
    instances, initialized, fields_ready, ctor,
    \* ---- the threads inside _update_stats (webhook.py 481-499): each one's
    \* ---- position, the outcome it records and the counter value it has
    \* ---- read; and the dict that get_stats returned last
    rec, observed

simpleVars == << simple_tokens, simple_last_loaded, simple_is_loading,
                 simple_loading_event, simple_factory_contract, simple_stats,
                 simple_step >>
ctorVars == << instances, initialized, fields_ready, ctor >>
recVars == << rec, observed >>
otherVars == << simpleVars, ctorVars, recVars >>

whVars == << whProgVars, clock, hb_wake, whStepVars, whHistVars >>
coordVars == << mgrVars, envVars, histVars, obsVars, refVars >>
vars == << coordVars, whVars, otherVars >>

(***************************************************************************)
(* Helpers.                                                                *)
(***************************************************************************)
EmptyMap == [k \in {} |-> 0]
SeqToSet(s) == {s[i] : i \in 1..Len(s)}
RemoveFrom(s, x) == SelectSeq(s, LAMBDA y : y # x)
\* Optional values: <<>> is Python's None, <<v>> is the value v
NoTime == <<>>
At(t) == <<t>>
\* Object references: <<>> is no object, <<[key, load]>> is the TokenInfo object
\* that the load numbered load stored under key in self.tokens
NoRef == <<>>

\* TokenInfo (token_manager.py 14-21)
TokenInfo(a, st, t) ==
    [address |-> a, name |-> NameOf(a), symbol |-> SymbolOf(a), state |-> st,
     last_updated |-> t]
\* TokenInfo.to_dict (token_manager.py 23-29)
to_dict(tok) == [address |-> tok.address, name |-> tok.name, symbol |-> tok.symbol]
\* [token.to_dict() for token in self.tradeable_tokens]
Snapshot(tr) == [i \in 1..Len(tr) |-> to_dict(tr[i])]

\* needs_refresh (token_manager.py 172-178)
needs_refresh ==
    IF last_refresh = NoTime THEN TRUE
    ELSE now - last_refresh[1] > refresh_interval

(***************************************************************************)
(* _refresh_tokens (token_manager.py 240-314).  An outcome says what the   *)
(* data source did during this fetch: whether getAllTokens() answered, and *)
(* for which addresses a per-token read (getTokenState, name, symbol)      *)
(* raised.                                                                 *)
(***************************************************************************)
ListedAddresses(listing) == {listing[i].address : i \in 1..Len(listing)}
\* the per-token reads that raise: none, or those of the first listed address (the
\* whole listing when it has one entry, a part of it when it has more)
FailingChoices(listing) ==
    IF listing = <<>> THEN {{}} ELSE {{}, {listing[1].address}}
FetchOutcomes(listing) ==
    {[enum_ok |-> FALSE, failing |-> {}]} \cup
    {[enum_ok |-> TRUE, failing |-> S] : S \in FailingChoices(listing)}

\* state in [1, 4]  (token_manager.py 287)
IsTradeableState(st) == st \in {1, 4}

\* the for-loop's new_tradeable (token_manager.py 259-288): in listing order, the
\* addresses whose reads did not raise and whose state is TRADING or RESUMED
NewTradeable_unfiltered(listing, failing, t) ==
    [i \in 1..Len(listing) |-> TokenInfo(listing[i].address, listing[i].state, t)]
RECURSIVE NewTradeable(_, _, _)
NewTradeable(listing, failing, t) ==
    IF listing = <<>> THEN <<>>
    ELSE LET e == Head(listing)
             rest == NewTradeable(Tail(listing), failing, t)
         IN IF e.address \notin failing /\ IsTradeableState(e.state)
            THEN <<TokenInfo(e.address, e.state, t)>> \o rest
            ELSE rest

\* the for-loop's new_tokens (token_manager.py 258-284): keyed by address.lower(),
\* a later entry of the listing overwriting an earlier one with the same key
NewTokens(listing, failing, t) ==
    LET okIdx == {i \in 1..Len(listing) : listing[i].address \notin failing}
        keys == {Lower(listing[i].address) : i \in okIdx}
        lastIdx(k) == CHOOSE i \in okIdx : /\ Lower(listing[i].address) = k
                                           /\ \A j \in okIdx : Lower(listing[j].address) = k => j <= i
    IN [k \in keys |-> TokenInfo(listing[lastIdx(k)].address, listing[lastIdx(k)].state, t)]

\* whether an invocation of _refresh_tokens reaches getAllTokens (242-254)
FetchRuns == factory_contract # None

\* the cache after _refresh_tokens with outcome o: the listing it reads is the one
\* of self.factory_contract (token_manager.py 254), as the chain has it now
RefreshCommit(o) ==
    LET listing == Listing(factory_contract, now)
    IN [tokens |-> NewTokens(listing, o.failing, now),
        tradeable_tokens |-> NewTradeable(listing, o.failing, now),
        last_refresh |-> At(now),
        total_refreshes |-> stats.total_refreshes + 1]
RefreshKeep ==
    [tokens |-> tokens, tradeable_tokens |-> tradeable_tokens,
     last_refresh |-> last_refresh, total_refreshes |-> stats.total_refreshes]
refresh_tokens(o) ==
    IF ~FetchRuns THEN RefreshKeep             \* 242-245: return
    ELSE IF ~o.enum_ok THEN RefreshKeep        \* 312-314: except Exception
    ELSE RefreshCommit(o)                      \* 300-304
\* how the fetch went, for the record of the run
FetchKind(o) ==
    IF ~FetchRuns THEN "none"
    ELSE IF ~o.enum_ok THEN "enum_failed"
    ELSE IF o.failing # {} THEN "token_failed" ELSE "ok"

(***************************************************************************)
(* The record of the run kept for the properties.                          *)
(*   fetched[c]      fetches (getAllTokens reached) in c's current call    *)
(*   invalidated     a register_bot changed the factory address and no     *)
(*                   get_tokens_for_bot has started since; the first that  *)
(*                   does gets mustFetch                                   *)
(*   lastFetch       how the _refresh_tokens of the step just taken went   *)
(*                   ("none" after a step that ran none)                   *)
(*   leader_left     the step just taken was an unregister_bot of the      *)
(*                   coordinator that left other bots registered           *)
(*   forced_call     "pending" from a force_refresh of a manager that has  *)
(*                   a factory contract until a get_tokens_for_bot starts, *)
(*                   then the name of that caller until it has its         *)
(*                   result; "none" otherwise                              *)
(***************************************************************************)
Registered(c) == c \in SeqToSet(registered_bots)
CacheEmpty == tokens = EmptyMap /\ tradeable_tokens = <<>> /\ last_refresh = NoTime
NoFetchNow == lastFetch' = "none"
NoHandOver == leader_left' = FALSE

(***************************************************************************)
(* register_bot (token_manager.py 102-153).                                *)
(***************************************************************************)
\* 119-126: the fields after a factory address change to f
InvalidateCache_keeps_signal(f) ==
    [tokens |-> EmptyMap, tradeable_tokens |-> <<>>, last_refresh |-> NoTime,
     tokens_loaded |-> FALSE, loading_event |-> loading_event,
     current_factory_address |-> f, coordinator_bot |-> None]
InvalidateCache_keeps_coordinator(f) ==
    [tokens |-> EmptyMap, tradeable_tokens |-> <<>>, last_refresh |-> NoTime,
     tokens_loaded |-> FALSE, loading_event |-> FALSE,
     current_factory_address |-> f, coordinator_bot |-> coordinator_bot]
InvalidateCache(f) ==
    [tokens |-> EmptyMap, tradeable_tokens |-> <<>>, last_refresh |-> NoTime,
     tokens_loaded |-> FALSE, loading_event |-> FALSE,
     current_factory_address |-> f, coordinator_bot |-> None]
\* 108-129: the same fields after the factory address check
AddressCheck(f) ==
    IF current_factory_address = None
    THEN [tokens |-> tokens, tradeable_tokens |-> tradeable_tokens,
          last_refresh |-> last_refresh, tokens_loaded |-> tokens_loaded,
          loading_event |-> loading_event,
          current_factory_address |-> f, coordinator_bot |-> coordinator_bot]
    ELSE IF current_factory_address # f
    THEN InvalidateCache(f)
    ELSE [tokens |-> tokens, tradeable_tokens |-> tradeable_tokens,
          last_refresh |-> last_refresh, tokens_loaded |-> tokens_loaded,
          loading_event |-> loading_event,
          current_factory_address |-> current_factory_address,
          coordinator_bot |-> coordinator_bot]
\* 132: self.registered_bots[bot_name] = ... (a dict keeps the first insertion's place)
AddBot(c) == IF Registered(c) THEN registered_bots ELSE Append(registered_bots, c)
\* 106-112: the registrant's factory address differs from the canonical one
AddressChanges(f) == current_factory_address # None /\ current_factory_address # f

register_bot(c, f) ==
    /\ pc[c] = "idle"
    /\ data_lock = None
    /\ LET a == AddressCheck(f)
       IN /\ tokens' = a.tokens
          /\ tradeable_tokens' = a.tradeable_tokens
          /\ last_refresh' = a.last_refresh
          /\ tokens_loaded' = a.tokens_loaded
          /\ loading_event' = a.loading_event
          /\ current_factory_address' = a.current_factory_address
          \* 146-147: the first bot, or the one registering after a reset
          /\ coordinator_bot' = IF a.coordinator_bot = None THEN c ELSE a.coordinator_bot
    /\ registered_bots' = AddBot(c)
    \* 138-141: only the first registrant's contract is ever stored
    /\ factory_contract' = IF factory_contract = None THEN f ELSE factory_contract
    /\ invalidated' = (invalidated \/ AddressChanges(f))
    /\ NoFetchNow
    /\ NoHandOver
    /\ UNCHANGED forced_call
    /\ UNCHANGED << refresh_in_progress, stats, data_lock, envVars, fetched, calls,
                    mustFetch, obsVars, refVars, whVars, otherVars >>

(***************************************************************************)
(* unregister_bot (token_manager.py 155-170).                              *)
(***************************************************************************)
\* 162-167: the coordinator once bot c has been deleted from the registry
CoordinatorAfterLeave_keeps_role(c, remaining) ==
    IF remaining = <<>> THEN None ELSE coordinator_bot
CoordinatorAfterLeave(c, remaining) ==
    IF coordinator_bot = c /\ remaining # <<>> THEN remaining[1]
    ELSE IF remaining = <<>> THEN None
    ELSE coordinator_bot

unregister_bot(c) ==
    /\ pc[c] = "idle"
    /\ data_lock = None
    /\ IF Registered(c)
       THEN /\ registered_bots' = RemoveFrom(registered_bots, c)
            /\ coordinator_bot' = CoordinatorAfterLeave(c, RemoveFrom(registered_bots, c))
       ELSE UNCHANGED << registered_bots, coordinator_bot >>
    /\ NoFetchNow
    /\ leader_left' = (Registered(c) /\ coordinator_bot = c /\ Len(registered_bots) > 1)
    /\ UNCHANGED forced_call
    /\ UNCHANGED << tokens, tradeable_tokens, last_refresh, refresh_in_progress,
                    factory_contract, current_factory_address, tokens_loaded,
                    loading_event, stats, data_lock, envVars, fetched, calls,
                    invalidated, mustFetch, obsVars, refVars, whVars, otherVars >>

(***************************************************************************)
(* force_refresh (token_manager.py 316-323) and cleanup (388-396).         *)
(***************************************************************************)
force_refresh_keeps_signal ==
    /\ data_lock = None
    /\ last_refresh' = NoTime
    /\ tokens_loaded' = FALSE
    /\ NoFetchNow
    /\ NoHandOver
    /\ forced_call' = IF FetchRuns THEN "pending" ELSE "none"
    /\ UNCHANGED << tokens, tradeable_tokens, refresh_in_progress, factory_contract,
                    current_factory_address, coordinator_bot, loading_event, stats, registered_bots,
                    data_lock, envVars, fetched, calls, invalidated, mustFetch, obsVars, refVars, whVars, otherVars >>

force_refresh ==
    /\ data_lock = None
    /\ last_refresh' = NoTime
    /\ tokens_loaded' = FALSE
    /\ loading_event' = FALSE
    /\ NoFetchNow
    /\ NoHandOver
    /\ forced_call' = IF FetchRuns THEN "pending" ELSE "none"
    /\ UNCHANGED << tokens, tradeable_tokens, refresh_in_progress, factory_contract,
                    current_factory_address, coordinator_bot, stats, registered_bots,
                    data_lock, envVars, fetched, calls, invalidated, mustFetch, obsVars, refVars, whVars, otherVars >>

cleanup ==
    /\ data_lock = None
    /\ registered_bots' = <<>>
    /\ coordinator_bot' = None
    /\ tokens_loaded' = FALSE
    /\ loading_event' = FALSE
    /\ NoFetchNow
    /\ NoHandOver
    /\ UNCHANGED forced_call
    /\ UNCHANGED << tokens, tradeable_tokens, last_refresh, refresh_in_progress,
                    factory_contract, current_factory_address, stats, data_lock,
                    envVars, fetched, calls, invalidated, mustFetch, obsVars, refVars, whVars, otherVars >>

(***************************************************************************)
(* get_tokens_for_bot (token_manager.py 180-238).  The whole body runs     *)
(* inside "with self.data_lock", the call to _refresh_tokens and the wait  *)
(* on loading_event included: a thread is "called" until it owns the lock, *)
(* then "refreshing" (208), "waiting" (224) or "fallback" (230) while it   *)
(* owns it, and "returned" once it has released it with its result.        *)
(* The ...Step actions are the program; they leave the observer's          *)
(* variables to the specification that uses them.                          *)
(***************************************************************************)
\* 187: tokens loaded and fresh
IsCacheHit(c) == tokens_loaded /\ ~force_arg[c] /\ ~needs_refresh
\* 197: is_coordinator
is_coordinator(c) == c = coordinator_bot
\* 187-218: the branch the call takes once it owns the lock
Branch(c) ==
    IF IsCacheHit(c) THEN "hit"
    ELSE IF is_coordinator(c) /\ ~refresh_in_progress THEN "coordinate"
    ELSE IF ~is_coordinator(c) THEN "wait"
    ELSE "return"
\* 188-189 and 233: the statistics of a call served without a fetch
CountHit_misses_saved(st) ==
    [st EXCEPT !.cache_hits = @ + 1]
CountHit(st) ==
    [st EXCEPT !.cache_hits = @ + 1, !.factory_queries_saved = @ + 1]
CountShared(st) ==
    [st EXCEPT !.factory_queries_saved = @ + 1]
LockAvailable_ignored == TRUE
\* 185: whether "with self.data_lock" can be entered by a thread not owning it
LockAvailable == data_lock = None

\* the caller invokes get_tokens_for_bot(c, force) and queues for data_lock
CallStep(c, force) ==
    /\ pc[c] = "idle"
    /\ pc' = [pc EXCEPT ![c] = "called"]
    /\ force_arg' = [force_arg EXCEPT ![c] = force]
    /\ fetched' = [fetched EXCEPT ![c] = 0]
    /\ calls' = calls + 1
    /\ NoFetchNow
    /\ NoHandOver
    /\ UNCHANGED forced_call
    /\ UNCHANGED << mgrVars, ret, now, invalidated, mustFetch >>

\* 185-224: the call takes data_lock and runs up to its first blocking point
EnterStep(c) ==
    /\ pc[c] = "called"
    /\ LockAvailable
    /\ LET b == Branch(c)
           served == b = "hit" \/ b = "return" \/ (b = "wait" /\ loading_event)
       IN /\ pc' = [pc EXCEPT ![c] = IF served THEN "returned"
                                     ELSE IF b = "coordinate" THEN "refreshing"
                                     ELSE "waiting"]
          /\ data_lock' = IF served THEN None ELSE c
          /\ ret' = IF served THEN [ret EXCEPT ![c] = Snapshot(tradeable_tokens)] ELSE ret
          /\ stats' = IF b = "hit" THEN CountHit(stats)
                      ELSE IF b = "wait" /\ loading_event THEN CountShared(stats)
                      ELSE stats
          \* 204-205
          /\ refresh_in_progress' = IF b = "coordinate" THEN TRUE ELSE refresh_in_progress
          /\ loading_event' = IF b = "coordinate" THEN FALSE ELSE loading_event
    /\ mustFetch' = [mustFetch EXCEPT ![c] = invalidated]
    /\ invalidated' = FALSE
    /\ NoFetchNow
    /\ NoHandOver
    /\ forced_call' = IF forced_call = "pending" THEN c ELSE forced_call
    /\ UNCHANGED << tokens, tradeable_tokens, last_refresh, factory_contract,
                    current_factory_address, coordinator_bot, tokens_loaded,
                    registered_bots, force_arg, now, fetched, calls >>

\* the record of the run after a fetch by c with outcome o
FetchRecorded(c, o) ==
    /\ fetched' = [fetched EXCEPT ![c] = @ + (IF FetchRuns THEN 1 ELSE 0)]
    /\ lastFetch' = FetchKind(o)
    /\ NoHandOver
    /\ UNCHANGED forced_call

\* 208-216: the coordinator's _refresh_tokens returns; finally: flag off, event set
RefreshStep(c) ==
    /\ pc[c] = "refreshing"
    /\ \E o \in FetchOutcomes(Listing(factory_contract, now)) :
         LET r == refresh_tokens(o)
         IN /\ tokens' = r.tokens
            /\ tradeable_tokens' = r.tradeable_tokens
            /\ last_refresh' = r.last_refresh
            /\ stats' = [stats EXCEPT !.total_refreshes = r.total_refreshes,
                                      !.coordinated_loads = @ + 1]
            /\ ret' = [ret EXCEPT ![c] = Snapshot(r.tradeable_tokens)]
            /\ FetchRecorded(c, o)
    /\ tokens_loaded' = TRUE
    /\ refresh_in_progress' = FALSE
    /\ loading_event' = TRUE
    /\ pc' = [pc EXCEPT ![c] = "returned"]
    /\ data_lock' = None
    /\ UNCHANGED << factory_contract, current_factory_address, coordinator_bot,
                    registered_bots, force_arg, now, calls, invalidated,
                    mustFetch >>

\* 224-235: loading_event.wait(timeout=60) ends, by the event or by the timeout.
\* The waiter owns data_lock, and the event is set only by a thread that owns it
\* (213), so the wait ends by the event only if it was already set.
\* 220: loading_event.wait(timeout=60) returns False once the 60 s have passed
wait_never_expires == FALSE
wait_timeout_expires == TRUE
WaitStep(c) ==
    /\ pc[c] = "waiting"
    /\ IF loading_event
       THEN /\ stats' = CountShared(stats)
            /\ ret' = [ret EXCEPT ![c] = Snapshot(tradeable_tokens)]
            /\ pc' = [pc EXCEPT ![c] = "returned"]
            /\ data_lock' = None
       ELSE /\ wait_timeout_expires
            /\ pc' = [pc EXCEPT ![c] = "fallback"]
            /\ UNCHANGED << stats, ret, data_lock >>
    /\ NoFetchNow
    /\ NoHandOver
    /\ UNCHANGED forced_call
    /\ UNCHANGED << tokens, tradeable_tokens, last_refresh, refresh_in_progress,
                    factory_contract, current_factory_address, coordinator_bot,
                    tokens_loaded, loading_event, registered_bots, force_arg, now,
                    fetched, calls, invalidated, mustFetch >>

\* 230-231, 238: the independent load after the timeout
FallbackStep(c) ==
    /\ pc[c] = "fallback"
    /\ \E o \in FetchOutcomes(Listing(factory_contract, now)) :
         LET r == refresh_tokens(o)
         IN /\ tokens' = r.tokens
            /\ tradeable_tokens' = r.tradeable_tokens
            /\ last_refresh' = r.last_refresh
            /\ stats' = [stats EXCEPT !.total_refreshes = r.total_refreshes]
            /\ ret' = [ret EXCEPT ![c] = Snapshot(r.tradeable_tokens)]
            /\ FetchRecorded(c, o)
    /\ tokens_loaded' = TRUE
    /\ pc' = [pc EXCEPT ![c] = "returned"]
    /\ data_lock' = None
    /\ UNCHANGED << refresh_in_progress, factory_contract, current_factory_address,
                    coordinator_bot, loading_event, registered_bots, force_arg, now,
                    calls, invalidated, mustFetch >>

\* the caller has used the list it was given
AckStep(c) ==
    /\ pc[c] = "returned"
    /\ pc' = [pc EXCEPT ![c] = "idle"]
    /\ ret' = [ret EXCEPT ![c] = <<>>]
    /\ fetched' = [fetched EXCEPT ![c] = 0]
    /\ mustFetch' = [mustFetch EXCEPT ![c] = FALSE]
    /\ force_arg' = [force_arg EXCEPT ![c] = FALSE]
    /\ NoFetchNow
    /\ NoHandOver
    /\ forced_call' = IF forced_call = c THEN "none" ELSE forced_call
    /\ UNCHANGED << mgrVars, now, calls, invalidated >>

(***************************************************************************)
(* The environment: the clock (and with it the chain).                     *)
(***************************************************************************)
TickStep ==
    /\ now < MaxTicks * TickMinutes
    /\ now' = now + TickMinutes
    /\ NoFetchNow
    /\ NoHandOver
    /\ UNCHANGED forced_call
    /\ UNCHANGED << mgrVars, pc, force_arg, ret, fetched, calls,
                    invalidated, mustFetch >>

(***************************************************************************)
(* OptimizedWebhookManager (bot/webhook.py): constants and the state after *)
(* construction.  Times are seconds.                                       *)
(***************************************************************************)
\* bounds of the notifier's specifications
StartClock == 1000
MaxElapsed == 10
MaxSends == 5
MaxHeartbeatTicks == 95

heartbeat_interval == 120
max_heartbeat_interval == 300
min_heartbeat_interval == 60
batch_timeout == 5
max_batch_size == 5
max_consecutive_failures == 3
failure_backoff_time == 30
\* 102 and 104: the activity thresholds of heartbeat_worker; 155: of the extension
ActiveWithin == 300
RecentWithin == 900
IdleBeyond == 600
\* 94: time.sleep(10)
worker_sleep == 10

priority_actions ==
    {"buy", "sell", "create_token", "error", "startup", "shutdown", "insufficient_funds"}
\* 341: the actions send_update lets through an open breaker
CriticalActions == {"startup", "shutdown", "error"}
\* 262 and 380: the actions sent without batching
DirectActions == {"startup", "shutdown", "error", "insufficient_funds"}
\* the actions send_update is called with in the model
SendActions == {"hold", "buy", "error"}
\* the batched actions it is called with where the order of a flush matters: two
\* of equal priority (buy, sell: 8) and two of lower ones (hold: 5, balance_alert: 4)
BatchedActions == {"hold", "buy", "sell", "balance_alert"}

NoTimer == <<>>
NoDetails == [batchedUpdates |-> 0, otherActions |-> <<>>, additionalActions |-> 0]
NoRequest == [action |-> "none", details |-> NoDetails, via |-> "none",
              in_backoff |-> FALSE, success |-> FALSE]
\* what the endpoint answers to a requests.post: an HTTP status, or the exception
\* raised instead of a response
Responses == {"200", "400", "500", "timeout", "connection_error"}
NoDelivery == [response |-> "none", attempts |-> 0]
ZeroWebhookStats ==
    [total_sent |-> 0, successful |-> 0, failed |-> 0, consecutive_failures |-> 0,
     heartbeats_sent |-> 0, heartbeats_successful |-> 0, requests_saved |-> 0]

\* __init__ (webhook.py 35-64) at time StartClock, and the heartbeat_worker thread
\* started by it in its first sleep
InitNotifier ==
    /\ clock = StartClock
    /\ last_heartbeat_sent = 0
    /\ adaptive_heartbeat_interval = 120
    /\ consecutive_heartbeat_failures = 0
    /\ last_significant_activity = StartClock
    /\ pending_updates = <<>>
    /\ batch_timer = NoTimer
    /\ webhook_stats = ZeroWebhookStats
    /\ last_failure_time = 0
    /\ timer_threads = <<>>
    /\ hb_wake = StartClock + worker_sleep
    /\ request = NoRequest
    /\ last_send = "none"
    /\ computed_interval = 0
    /\ sends = 0
    /\ enq_count = 0
    /\ flush_count = 0
    /\ gaps_ok = TRUE
    /\ last_enqueue = NoTime
    /\ size_flush_ok = TRUE
    /\ hb_failed = FALSE
    /\ flushed_events = 0
    /\ batch_start = NoTime
    /\ delivery = NoDelivery

\* the notifier's fields as one record, with no request made yet in this step
Self ==
    [last_heartbeat_sent |-> last_heartbeat_sent,
     adaptive_heartbeat_interval |-> adaptive_heartbeat_interval,
     consecutive_heartbeat_failures |-> consecutive_heartbeat_failures,
     last_significant_activity |-> last_significant_activity,
     pending_updates |-> pending_updates,
     batch_timer |-> batch_timer,
     webhook_stats |-> webhook_stats,
     last_failure_time |-> last_failure_time,
     timer_threads |-> timer_threads,
     request |-> NoRequest]
\* the fields after a handler that ended with the record s
Becomes(s) ==
    /\ last_heartbeat_sent' = s.last_heartbeat_sent
    /\ adaptive_heartbeat_interval' = s.adaptive_heartbeat_interval
    /\ consecutive_heartbeat_failures' = s.consecutive_heartbeat_failures
    /\ last_significant_activity' = s.last_significant_activity
    /\ pending_updates' = s.pending_updates
    /\ batch_timer' = s.batch_timer
    /\ webhook_stats' = s.webhook_stats
    /\ last_failure_time' = s.last_failure_time
    /\ timer_threads' = s.timer_threads
    /\ request' = s.request

(***************************************************************************)
(* The notifier's handlers, as functions of the fields s, the time t and   *)
(* the outcome of the one requests.post a handler can make.                *)
(***************************************************************************)
\* 481-499 _update_stats
update_stats(s, success, t) ==
    IF success
    THEN [s EXCEPT !.webhook_stats.total_sent = @ + 1,
                   !.webhook_stats.successful = @ + 1,
                   !.webhook_stats.consecutive_failures = 0]
    ELSE [s EXCEPT !.webhook_stats.total_sent = @ + 1,
                   !.webhook_stats.failed = @ + 1,
                   !.webhook_stats.consecutive_failures = @ + 1,
                   !.last_failure_time = t]

\* 239-241: the breaker is open
InBackoff(s, t) ==
    /\ s.webhook_stats.consecutive_failures >= max_consecutive_failures
    /\ t - s.last_failure_time < failure_backoff_time
\* 237-246 _should_skip_webhook: its result is InBackoff(s, t), its effect this
should_skip_webhook(s, t) ==
    IF s.webhook_stats.consecutive_failures >= max_consecutive_failures
       /\ ~(t - s.last_failure_time < failure_backoff_time)
    THEN [s EXCEPT !.webhook_stats.consecutive_failures = 0]
    ELSE s

\* 425-479 _send_webhook_request: one requests.post; True for status 200 (433),
\* False for any other status (464-467) and for every exception (469-479)
send_webhook_request(response) ==
    [success |-> response = "200", attempts |-> 1]

\* 392-423 _send_webhook_direct with 425-479 _send_webhook_request: one
\* requests.post, which succeeds or not, then the statistics
send_webhook_direct(s, action_type, details, success, t, via) ==
    update_stats([s EXCEPT !.request =
                      [action |-> action_type, details |-> details, via |-> via,
                       in_backoff |-> InBackoff(s, t), success |-> success]],
                 success, t)

\* 274-288 _get_action_priority
get_action_priority(action_type) ==
    CASE action_type \in {"error", "insufficient_funds"} -> 10
      [] action_type \in {"startup", "shutdown"} -> 9
      [] action_type \in {"buy", "sell"} -> 8
      [] action_type = "create_token" -> 7
      [] action_type = "hold" -> 5
      [] action_type = "balance_alert" -> 4
      [] action_type = "heartbeat" -> 2
      [] OTHER -> 3

\* 308: list.sort(key=priority, reverse=True) is stable: u goes behind every
\* update whose priority is not lower
RECURSIVE InsertByPriority(_, _)
InsertByPriority(u, sorted) ==
    IF sorted = <<>> THEN << u >>
    ELSE IF Head(sorted).priority >= u.priority
         THEN << Head(sorted) >> \o InsertByPriority(u, Tail(sorted))
         ELSE << u >> \o sorted
SortByPriority_keeps_order(updates) == updates
RECURSIVE SortByPriority(_)
\* the updates before the last one sorted, then the last one inserted; the
\* sorted prefix is bound as a value, so that it is computed once
SortByPriority(updates) ==
    IF updates = <<>> THEN <<>>
    ELSE CHOOSE r \in {InsertByPriority(updates[Len(updates)], rest) :
                          rest \in {SortByPriority(SubSeq(updates, 1, Len(updates) - 1))}} :
             TRUE

Min(a, b) == IF a < b THEN a ELSE b
Max(a, b) == IF a > b THEN a ELSE b
\* 316-321: the summary of the updates that are not sent themselves
BatchDetails(other_updates) ==
    IF other_updates = <<>> THEN NoDetails
    ELSE [batchedUpdates |-> Len(other_updates),
          otherActions |-> [i \in 1..Min(3, Len(other_updates)) |-> other_updates[i].action],
          additionalActions |-> Max(Len(other_updates) - 3, 0)]

flush_batch_keeps_failed(s, success, t, via) ==
    IF s.pending_updates = <<>> THEN s
    ELSE LET sorted == SortByPriority(s.pending_updates)
             saved == [s EXCEPT !.webhook_stats.requests_saved = @ + Len(Tail(sorted))]
             sent == send_webhook_direct(saved, sorted[1].action,
                                         BatchDetails(Tail(sorted)), success, t, via)
         IN IF success THEN [sent EXCEPT !.pending_updates = <<>>, !.batch_timer = NoTimer]
            ELSE [sent EXCEPT !.batch_timer = NoTimer]
\* 302-333 _flush_batch
flush_batch(s, success, t, via) ==
    IF s.pending_updates = <<>> THEN s
    ELSE LET sorted == SortByPriority(s.pending_updates)
             primary_update == sorted[1]
             other_updates == Tail(sorted)
             saved == [s EXCEPT !.webhook_stats.requests_saved = @ + Len(other_updates)]
             sent == send_webhook_direct(saved, primary_update.action,
                                         BatchDetails(other_updates), success, t, via)
         IN [sent EXCEPT !.pending_updates = <<>>, !.batch_timer = NoTimer]

\* 290-300 _set_batch_timer: a new flush_timer thread, asleep for batch_timeout
set_batch_timer_unstarted(s, t) == [s EXCEPT !.batch_timer = At(t + batch_timeout)]
set_batch_timer(s, t) ==
    [s EXCEPT !.batch_timer = At(t + batch_timeout),
              !.timer_threads = Append(@, t + batch_timeout)]

\* 248-272 _queue_update
queue_update(s, action_type, success, t) ==
    LET update == [action |-> action_type, priority |-> get_action_priority(action_type)]
        queued == [s EXCEPT !.pending_updates = Append(@, update),
                            !.last_significant_activity =
                                IF action_type \in priority_actions THEN t ELSE @]
    IN IF action_type \in DirectActions THEN flush_batch(queued, success, t, "priority")
       ELSE IF Len(queued.pending_updates) >= max_batch_size
            THEN flush_batch(queued, success, t, "size")
       ELSE IF queued.batch_timer = NoTimer THEN set_batch_timer(queued, t)
       ELSE queued

\* 335-390 send_update (self.enabled)
send_update(s, action_type, success, t) ==
    LET checked == should_skip_webhook(s, t)
    IN IF InBackoff(s, t) /\ action_type \notin CriticalActions
       THEN [checked EXCEPT !.webhook_stats.requests_saved = @ + 1]
       ELSE IF action_type \in DirectActions
            THEN send_webhook_direct(checked, action_type, NoDetails, success, t, "direct")
       ELSE queue_update(checked, action_type, success, t)

\* 292-297 flush_timer once its sleep is over: the oldest sleeping thread
flush_timer(s, success, t) ==
    LET woken == [s EXCEPT !.timer_threads = Tail(@)]
    IN IF woken.batch_timer # NoTimer
       THEN flush_batch([woken EXCEPT !.batch_timer = NoTimer], success, t, "timer")
       ELSE woken

\* 121-171 _send_scheduled_heartbeat; x * 1.2 and x * 0.8 are whole numbers for
\* every interval the scheduler can hold
send_scheduled_heartbeat(s, success, t) ==
    LET checked == should_skip_webhook(s, t)
        sent == send_webhook_direct(checked, "heartbeat", NoDetails, success, t, "heartbeat")
        counted == [sent EXCEPT !.webhook_stats.heartbeats_sent = @ + 1]
    IN IF InBackoff(s, t)
       THEN [checked EXCEPT !.webhook_stats.requests_saved = @ + 1]
       ELSE IF success
            THEN [counted EXCEPT
                    !.last_heartbeat_sent = t,
                    !.consecutive_heartbeat_failures = 0,
                    !.webhook_stats.heartbeats_successful = @ + 1,
                    !.adaptive_heartbeat_interval =
                        IF t - s.last_significant_activity > IdleBeyond
                        THEN Min((@ * 12) \div 10, max_heartbeat_interval)
                        ELSE @]
            ELSE [counted EXCEPT
                    !.consecutive_heartbeat_failures = @ + 1,
                    !.adaptive_heartbeat_interval =
                        Max((@ * 8) \div 10, min_heartbeat_interval)]

\* 99-107: the interval heartbeat_worker computes from the time since activity
IntervalFor(time_since_activity) ==
    IF time_since_activity < ActiveWithin THEN min_heartbeat_interval
    ELSE IF time_since_activity < RecentWithin THEN heartbeat_interval
    ELSE max_heartbeat_interval
\* 93-111 heartbeat_worker, one turn of its loop after the sleep
heartbeat_worker(s, success, t) ==
    LET computed == [s EXCEPT !.adaptive_heartbeat_interval =
                                  IntervalFor(t - s.last_significant_activity)]
    IN IF t - s.last_heartbeat_sent >= computed.adaptive_heartbeat_interval
       THEN send_scheduled_heartbeat(computed, success, t)
       ELSE computed


(***************************************************************************)
(* What a caller can do with the values it was given.  get_tokens_for_bot  *)
(* returns a new list of new dicts (to_dict, 194 and 238);                 *)
(* get_token_by_address returns the TokenInfo object the cache holds       *)
(* (383-386), which _refresh_tokens also appended to tradeable_tokens      *)
(* (284-295: one object per address, in both containers).  TokenInfo is a  *)
(* dataclass that is not frozen (14-21), so its attributes can be assigned.*)
(***************************************************************************)
Mutated == "MUTATED"
\* the object stored under key k by the last committed load
RefTo(k) == << [key |-> k, load |-> stats.total_refreshes] >>
\* whether the object r refers to is still the one in self.tokens: every committed
\* load builds new objects (300-304) and counts in total_refreshes
InCache(r) ==
    /\ r # NoRef
    /\ r[1].key \in DOMAIN tokens
    /\ r[1].load = stats.total_refreshes
\* 383-386: return self.tokens.get(address.lower())
get_token_by_address(c, a) ==
    /\ pc[c] = "idle"
    /\ LockAvailable
    /\ held' = [held EXCEPT ![c] = IF Lower(a) \in DOMAIN tokens THEN RefTo(Lower(a))
                                   ELSE NoRef]
    /\ NoFetchNow
    /\ NoHandOver
    /\ UNCHANGED forced_call
    /\ UNCHANGED << mgrVars, envVars, fetched, calls, invalidated, mustFetch,
                    obsVars, whVars, otherVars >>
\* the tradeable list once the object stored under key k has its symbol assigned
WriteThrough(k) ==
    [i \in 1..Len(tradeable_tokens) |->
        IF Lower(tradeable_tokens[i].address) = k
        THEN [tradeable_tokens[i] EXCEPT !.symbol = Mutated]
        ELSE tradeable_tokens[i]]
\* the caller assigns the symbol attribute of the TokenInfo it holds
ConsumerWritesRecord(c) ==
    /\ held[c] # NoRef
    /\ IF InCache(held[c])
       THEN /\ tokens' = [tokens EXCEPT ![held[c][1].key].symbol = Mutated]
            /\ tradeable_tokens' = WriteThrough(held[c][1].key)
       ELSE UNCHANGED << tokens, tradeable_tokens >>
    /\ held' = [held EXCEPT ![c] = NoRef]
    /\ NoFetchNow
    /\ NoHandOver
    /\ UNCHANGED forced_call
    /\ UNCHANGED << last_refresh, refresh_in_progress, factory_contract,
                    current_factory_address, coordinator_bot, tokens_loaded,
                    loading_event, stats, registered_bots, data_lock, envVars,
                    fetched, calls, invalidated, mustFetch, obsVars, whVars, otherVars >>
\* the caller assigns the "symbol" entry of the first dict of the list that
\* get_tokens_for_bot returned to it
ConsumerWritesResult(c) ==
    /\ pc[c] = "returned"
    /\ ret[c] # <<>>
    /\ ret[c][1].symbol # Mutated
    /\ ret' = [ret EXCEPT ![c] = [@ EXCEPT ![1].symbol = Mutated]]
    /\ NoFetchNow
    /\ NoHandOver
    /\ UNCHANGED forced_call
    /\ UNCHANGED << mgrVars, pc, force_arg, now, fetched, calls, invalidated,
                    mustFetch, obsVars, refVars, whVars, otherVars >>

(***************************************************************************)
(* SimpleSharedTokenLoader (shared/simple_token_loader.py).  Its class     *)
(* lock is held through the whole of get_tokens, and _load_tokens runs     *)
(* only inside it, so each call is one step.  Times are minutes.           *)
(***************************************************************************)
MaxSimpleCalls == 3
simple_refresh_interval == 30
\* a factory that has created no token yet, next to the ones above
SimpleFactories == Factories \cup {"F0"}
SimpleListing(f, t) == IF f = "F0" THEN <<>> ELSE Listing(f, t)
ZeroSimpleStats == [total_loads |-> 0, bots_served |-> 0, queries_saved |-> 0]
InitSimpleLoader ==
    /\ simple_tokens = <<>>
    /\ simple_last_loaded = NoTime
    /\ simple_is_loading = FALSE
    /\ simple_loading_event = FALSE
    /\ simple_factory_contract = None
    /\ simple_stats = ZeroSimpleStats
    /\ simple_step = "none"
simple_setup_contracts(f) ==
    /\ simple_factory_contract' = IF simple_factory_contract = None THEN f
                                  ELSE simple_factory_contract
    /\ simple_step' = "none"
    /\ UNCHANGED << simple_tokens, simple_last_loaded, simple_is_loading,
                    simple_loading_event, simple_stats >>
simple_needs_refresh ==
    IF simple_last_loaded = NoTime THEN TRUE
    ELSE now - simple_last_loaded[1] > simple_refresh_interval
\* the truth value Python gives the cached list
Truthy(list) == list # <<>>
\* the dict _load_tokens builds for a listed address
SimpleRecord(a) == [address |-> a, name |-> NameOf(a), symbol |-> SymbolOf(a)]
RECURSIVE SimpleTradeable(_, _, _)
SimpleTradeable(listing, failing, i) ==
    IF i > Len(listing) THEN <<>>
    ELSE IF listing[i].address \notin failing /\ listing[i].state \in {1, 4}
         THEN << SimpleRecord(listing[i].address) >>
              \o SimpleTradeable(listing, failing, i + 1)
         ELSE SimpleTradeable(listing, failing, i + 1)
\* _load_tokens, entered with the statistics st: enumerationOk is whether
\* getAllTokens answered, failing the addresses whose per-token calls raise
simple_load_tokens(st, enumerationOk, failing) ==
    IF simple_factory_contract = None
    THEN /\ simple_step' = "nofactory"
         /\ UNCHANGED << simple_tokens, simple_last_loaded, simple_is_loading,
                         simple_loading_event >>
         /\ simple_stats' = st
    ELSE /\ simple_is_loading' = FALSE
         /\ simple_loading_event' = TRUE
         /\ IF enumerationOk
            THEN /\ simple_tokens' =
                        SimpleTradeable(SimpleListing(simple_factory_contract, now),
                                        failing, 1)
                 /\ simple_last_loaded' = At(now)
                 /\ simple_stats' = [st EXCEPT !.total_loads = @ + 1]
                 /\ simple_step' = "loaded"
            ELSE /\ simple_stats' = st
                 /\ simple_step' = "failed"
                 /\ UNCHANGED << simple_tokens, simple_last_loaded >>
simple_get_tokens(c, enumerationOk, failing) ==
    /\ IF ~simple_needs_refresh /\ Truthy(simple_tokens)
       THEN /\ simple_stats' = [simple_stats EXCEPT !.bots_served = @ + 1,
                                                    !.queries_saved = @ + 1]
            /\ simple_step' = "cached"
            /\ UNCHANGED << simple_tokens, simple_last_loaded, simple_is_loading,
                            simple_loading_event >>
       ELSE IF simple_is_loading /\ simple_loading_event /\ Truthy(simple_tokens)
       THEN /\ simple_stats' = [simple_stats EXCEPT !.bots_served = @ + 1,
                                                    !.queries_saved = @ + 1]
            /\ simple_step' = "cached"
            /\ UNCHANGED << simple_tokens, simple_last_loaded, simple_is_loading,
                            simple_loading_event >>
       ELSE simple_load_tokens([simple_stats EXCEPT !.bots_served = @ + 1],
                               enumerationOk, failing)
    /\ UNCHANGED simple_factory_contract
simple_force_refresh ==
    /\ simple_last_loaded' = NoTime
    /\ simple_step' = "none"
    /\ UNCHANGED << simple_tokens, simple_is_loading, simple_loading_event,
                    simple_factory_contract, simple_stats >>

(***************************************************************************)
(* _update_stats (webhook.py 481-499) statement by statement.  No lock     *)
(* guards it: the heartbeat thread and the bot thread reach it through     *)
(* _send_webhook_direct without one, a flush_timer thread while holding    *)
(* only batch_lock.  "x += 1" on a dict entry reads the entry and stores   *)
(* the sum as two steps; the statements after the outcome counter (487,    *)
(* 490-491) are part of the last step.                                     *)
(***************************************************************************)
MaxRecorded == 2
Recorders == {"heartbeat", "flush_timer", "bot"}
Idle == [at |-> "idle", success |-> FALSE, tmp |-> 0]
InitRecorders ==
    /\ rec = [th \in Recorders |-> Idle]
    /\ observed = ZeroWebhookStats
InitOther == InitSimpleLoader /\ InitRecorders
\* the outcomes whose recording has started
Started == webhook_stats.total_sent + Cardinality({th \in Recorders : rec[th].at = "read_total"})
\* 483: total_sent read
ReadTotal(th, success) ==
    /\ rec[th].at = "idle"
    /\ rec' = [rec EXCEPT ![th] = [at |-> "read_total", success |-> success,
                                   tmp |-> webhook_stats.total_sent]]
    /\ UNCHANGED << webhook_stats, last_failure_time, observed >>
\* 483: total_sent stored
StoreTotal(th) ==
    /\ rec[th].at = "read_total"
    /\ webhook_stats' = [webhook_stats EXCEPT !.total_sent = rec[th].tmp + 1]
    /\ rec' = [rec EXCEPT ![th].at = "stored_total"]
    /\ UNCHANGED << last_failure_time, observed >>
\* 486, 489: successful or failed read
ReadOutcome(th) ==
    /\ rec[th].at = "stored_total"
    /\ rec' = [rec EXCEPT ![th].at = "read_outcome",
                          ![th].tmp = IF rec[th].success THEN webhook_stats.successful
                                      ELSE webhook_stats.failed]
    /\ UNCHANGED << webhook_stats, last_failure_time, observed >>
\* 486-487, 489-491: the counter stored, consecutive_failures and
\* last_failure_time updated
StoreOutcome(th) ==
    /\ rec[th].at = "read_outcome"
    /\ IF rec[th].success
       THEN /\ webhook_stats' = [webhook_stats EXCEPT !.successful = rec[th].tmp + 1,
                                                      !.consecutive_failures = 0]
            /\ UNCHANGED last_failure_time
       ELSE /\ webhook_stats' = [webhook_stats EXCEPT !.failed = rec[th].tmp + 1,
                                                      !.consecutive_failures = @ + 1]
            /\ last_failure_time' = clock
    /\ rec' = [rec EXCEPT ![th] = Idle]
    /\ UNCHANGED observed
\* 649-668 get_stats: a copy of webhook_stats, taken without a lock
get_stats ==
    /\ observed' = webhook_stats
    /\ UNCHANGED << webhook_stats, last_failure_time, rec >>

(***************************************************************************)
(* SharedTokenManager() (token_manager.py 37-53): __new__ then __init__,   *)
(* as the steps between which another thread can run.  The specifications  *)
(* above start after one construction has completed.                       *)
(***************************************************************************)
\* the statistics after __init__ (token_manager.py 75-82)
ZeroStats == [total_refreshes |-> 0, cache_hits |-> 0, factory_queries_saved |-> 0,
              coordinated_loads |-> 0]
InitConstructed ==
    /\ instances = 1
    /\ initialized = TRUE
    /\ fields_ready = TRUE
    /\ ctor = [c \in DOMAIN pc |-> "done"]
\* __new__ 42: the unlocked test of cls._instance; a thread may construct
\* the manager again once its call has returned
NewCheck(c) ==
    /\ ctor[c] \in {"none", "done"}
    /\ ctor' = [ctor EXCEPT ![c] = IF instances = 0 THEN "locking" ELSE "init"]
    /\ UNCHANGED << instances, initialized, fields_ready >>
\* __new__ 43-45: the test repeated and the object created under cls._lock
NewCreate(c) ==
    /\ ctor[c] = "locking"
    /\ instances' = IF instances = 0 THEN 1 ELSE instances
    /\ ctor' = [ctor EXCEPT ![c] = "init"]
    /\ UNCHANGED << initialized, fields_ready >>
\* __init__ 50-51: hasattr(self, '_initialized')
InitCheck(c) ==
    /\ ctor[c] = "init"
    /\ ctor' = [ctor EXCEPT ![c] = IF initialized THEN "done" ELSE "marking"]
    /\ UNCHANGED << instances, initialized, fields_ready >>
\* __init__ 53: self._initialized = True
InitMark(c) ==
    /\ ctor[c] = "marking"
    /\ initialized' = TRUE
    /\ ctor' = [ctor EXCEPT ![c] = "fields"]
    /\ UNCHANGED << instances, fields_ready >>
\* __init__ 54-88: the fields assigned their initial values
InitFields(c) ==
    /\ ctor[c] = "fields"
    /\ tokens' = EmptyMap
    /\ tradeable_tokens' = <<>>
    /\ last_refresh' = NoTime
    /\ refresh_in_progress' = FALSE
    /\ factory_contract' = None
    /\ current_factory_address' = None
    /\ coordinator_bot' = None
    /\ tokens_loaded' = FALSE
    /\ loading_event' = FALSE
    /\ stats' = ZeroStats
    /\ registered_bots' = <<>>
    /\ data_lock' = None
    /\ fields_ready' = TRUE
    /\ ctor' = [ctor EXCEPT ![c] = "done"]
    /\ UNCHANGED << instances, initialized >>

(***************************************************************************)
(* The coordinator's specification: any bot may register, unregister,      *)
(* force a refresh, clean up, and call get_tokens_for_bot.                 *)
(***************************************************************************)
ScenOff == [leader |-> None, waiters |-> {}, saved0 |-> 0, done |-> FALSE]
\* __init__ (token_manager.py 48-88), for the bot threads in B
InitManager(B) ==
    /\ tokens = EmptyMap
    /\ tradeable_tokens = <<>>
    /\ last_refresh = NoTime
    /\ refresh_in_progress = FALSE
    /\ factory_contract = None
    /\ current_factory_address = None
    /\ coordinator_bot = None
    /\ tokens_loaded = FALSE
    /\ loading_event = FALSE
    /\ stats = ZeroStats
    /\ registered_bots = <<>>
    /\ data_lock = None
    /\ pc = [c \in B |-> "idle"]
    /\ force_arg = [c \in B |-> FALSE]
    /\ ret = [c \in B |-> <<>>]
    /\ now = 0
    /\ fetched = [c \in B |-> 0]
    /\ calls = 0
    /\ invalidated = FALSE
    /\ mustFetch = [c \in B |-> FALSE]
    /\ lastFetch = "none"
    /\ leader_left = FALSE
    /\ forced_call = "none"
    /\ held = [c \in DOMAIN pc |-> NoRef]
    /\ cohort = {}
    /\ cohortOpen = FALSE
    /\ cohortFetches = 0
    /\ scen = ScenOff
    /\ InitNotifier
    /\ InitOther

Init == InitManager(Bots) /\ InitConstructed

Call(c, force) == calls < MaxCalls /\ CallStep(c, force) /\ UNCHANGED << obsVars, refVars, whVars, otherVars >>
Enter(c) == EnterStep(c) /\ UNCHANGED << obsVars, refVars, whVars, otherVars >>
RefreshDone(c) == RefreshStep(c) /\ UNCHANGED << obsVars, refVars, whVars, otherVars >>
WaitEnds(c) == WaitStep(c) /\ UNCHANGED << obsVars, refVars, whVars, otherVars >>
FallbackDone(c) == FallbackStep(c) /\ UNCHANGED << obsVars, refVars, whVars, otherVars >>
Ack(c) == AckStep(c) /\ UNCHANGED << obsVars, refVars, whVars, otherVars >>
Tick == TickStep /\ UNCHANGED << obsVars, refVars, whVars, otherVars >>

Next ==
    \/ \E c \in Bots, f \in Factories : register_bot(c, f)
    \/ \E c \in Bots : unregister_bot(c)
    \/ force_refresh
    \/ cleanup
    \/ \E c \in Bots, force \in BOOLEAN : Call(c, force)
    \/ \E c \in Bots : Enter(c)
    \/ \E c \in Bots : RefreshDone(c)
    \/ \E c \in Bots : WaitEnds(c)
    \/ \E c \in Bots : FallbackDone(c)
    \/ \E c \in Bots : Ack(c)
    \/ Tick

Spec == Init /\ [][Next]_vars

\* Fair scheduling of the threads inside get_tokens_for_bot: a thread that asks
\* for the lock again and again gets it, every fetch terminates and the 60 s of a
\* wait pass.
Fairness ==
    \A c \in Bots :
        /\ SF_vars(Enter(c))
        /\ WF_vars(RefreshDone(c))
        /\ WF_vars(WaitEnds(c))
        /\ WF_vars(FallbackDone(c))
\* the calls C9 speaks of: get_tokens_for_bot, register_bot, unregister_bot and
\* force_refresh, within one refresh interval
FairNext ==
    \/ \E c \in Bots, f \in Factories : register_bot(c, f)
    \/ \E c \in Bots : unregister_bot(c)
    \/ force_refresh
    \/ \E c \in Bots, force \in BOOLEAN : Call(c, force)
    \/ \E c \in Bots : Enter(c)
    \/ \E c \in Bots : RefreshDone(c)
    \/ \E c \in Bots : WaitEnds(c)
    \/ \E c \in Bots : FallbackDone(c)
    \/ \E c \in Bots : Ack(c)
FairSpec == Init /\ [][FairNext]_vars /\ Fairness

\* The calls of the bots together with what the callers do with the results.
AliasNext ==
    \/ \E c \in Bots, f \in Factories : register_bot(c, f)
    \/ \E c \in Bots : Call(c, FALSE)
    \/ \E c \in Bots : Enter(c)
    \/ \E c \in Bots : RefreshDone(c)
    \/ \E c \in Bots : WaitEnds(c)
    \/ \E c \in Bots : FallbackDone(c)
    \/ \E c \in Bots : Ack(c)
    \/ \E c \in Bots, a \in Addresses : get_token_by_address(c, a)
    \/ \E c \in Bots : ConsumerWritesRecord(c)
    \/ \E c \in Bots : ConsumerWritesResult(c)

AliasSpec == Init /\ [][AliasNext]_vars

(***************************************************************************)
(* The simple loader's specification: bots set the factory, ask for the    *)
(* tokens and force refreshes while time passes.                           *)
(***************************************************************************)
SimpleSetup(f) ==
    simple_setup_contracts(f) /\ UNCHANGED << coordVars, whVars, ctorVars, recVars >>
SimpleGet(c, o) ==
    /\ simple_stats.bots_served < MaxSimpleCalls
    /\ simple_get_tokens(c, o.enum_ok, o.failing)
    /\ UNCHANGED << coordVars, whVars, ctorVars, recVars >>
\* the call with every outcome the factory's answers can give it
SimpleCall(c) ==
    \E o \in FetchOutcomes(IF simple_factory_contract = None THEN <<>>
                           ELSE SimpleListing(simple_factory_contract, now)) :
        SimpleGet(c, o)
SimpleForce == simple_force_refresh /\ UNCHANGED << coordVars, whVars, ctorVars, recVars >>
SimpleTick ==
    /\ now < MaxTicks * TickMinutes
    /\ now' = now + TickMinutes
    /\ simple_step' = "none"
    /\ UNCHANGED << simple_tokens, simple_last_loaded, simple_is_loading,
                    simple_loading_event, simple_factory_contract, simple_stats >>
    /\ UNCHANGED << mgrVars, pc, force_arg, ret, histVars, obsVars, refVars, whVars,
                    ctorVars, recVars >>
SimpleNext ==
    \/ \E f \in SimpleFactories : SimpleSetup(f)
    \/ \E c \in Bots : SimpleCall(c)
    \/ SimpleForce
    \/ SimpleTick
SimpleSpec == Init /\ [][SimpleNext]_vars

(***************************************************************************)
(* The construction specification: no manager exists yet, and every bot    *)
(* thread creates an OptimizedTokenLoader (token_manager.py 403-413),      *)
(* which constructs the manager and then registers with it.                *)
(***************************************************************************)
ConstructionInit ==
    /\ InitManager(Bots)
    /\ instances = 0
    /\ initialized = FALSE
    /\ fields_ready = FALSE
    /\ ctor = [c \in Bots |-> "none"]
CtorRest == << envVars, histVars, obsVars, refVars, whVars, simpleVars, recVars >>
CtorNew(c) == NewCheck(c) /\ UNCHANGED << mgrVars, CtorRest >>
CtorCreate(c) == NewCreate(c) /\ UNCHANGED << mgrVars, CtorRest >>
CtorCheck(c) == InitCheck(c) /\ UNCHANGED << mgrVars, CtorRest >>
CtorMark(c) == InitMark(c) /\ UNCHANGED << mgrVars, CtorRest >>
CtorFields(c) == InitFields(c) /\ UNCHANGED CtorRest
\* 410-413: register_bot on the manager the constructor returned
CtorRegister(c, f) ==
    /\ ctor[c] = "done"
    /\ fields_ready
    /\ register_bot(c, f)
\* 410-413 on an object whose fields are not assigned yet: self.data_lock
\* raises AttributeError and the loader is not created
CtorRegisterRaises(c) ==
    /\ ctor[c] = "done"
    /\ ~fields_ready
    /\ ctor' = [ctor EXCEPT ![c] = "raised"]
    /\ UNCHANGED << instances, initialized, fields_ready, mgrVars, CtorRest >>
ConstructionNext ==
    \/ \E c \in Bots : CtorNew(c)
    \/ \E c \in Bots : CtorCreate(c)
    \/ \E c \in Bots : CtorCheck(c)
    \/ \E c \in Bots : CtorMark(c)
    \/ \E c \in Bots : CtorFields(c)
    \/ \E c \in Bots, f \in Factories : CtorRegister(c, f)
    \/ \E c \in Bots : CtorRegisterRaises(c)
ConstructionSpec == ConstructionInit /\ [][ConstructionNext]_vars

(***************************************************************************)
(* The scenario specification: every bot of the scenario has registered    *)
(* with factory F1 (register_bot four times, in the order of BotNames, so  *)
(* the first is the coordinator) and the bots only call                    *)
(* get_tokens_for_bot(c) with force_refresh left at its default.  An       *)
(* observer follows the calls:                                             *)
(*   cohort   calls issued together while the cache was stale: each was    *)
(*            issued by a registered bot while needs_refresh held and      *)
(*            before any of them had taken the lock; cohortFetches counts  *)
(*            the fetches they ran.  A fetch that fails ends the cohort.   *)
(*   scen     the leader-first scenario: the coordinator's refresh started *)
(*            on an empty cache with every other bot idle; waiters are the *)
(*            bots that called while that refresh was running; saved0 is   *)
(*            factory_queries_saved when it started, done says whether the *)
(*            refresh has returned.  Any other call ends the scenario.     *)
(***************************************************************************)
CohortReset == cohort' = {} /\ cohortOpen' = FALSE /\ cohortFetches' = 0

ObserveCall(c) ==
    /\ LET joins == Registered(c) /\ needs_refresh
       IN IF cohort = {} /\ joins /\ \A d \in DOMAIN pc : pc[d] = "idle"
          THEN cohort' = {c} /\ cohortOpen' = TRUE /\ cohortFetches' = 0
          ELSE IF cohortOpen /\ joins
          THEN cohort' = cohort \cup {c} /\ UNCHANGED << cohortOpen, cohortFetches >>
          ELSE CohortReset
    /\ scen' = IF scen.leader = None THEN scen
               ELSE IF /\ c # scen.leader /\ ~scen.done /\ pc[scen.leader] = "refreshing"
                       /\ Registered(c)
               THEN [scen EXCEPT !.waiters = @ \cup {c}]
               ELSE ScenOff

ScenarioStarts(c) ==
    /\ Branch(c) = "coordinate"
    /\ Len(registered_bots) = NumScenarioBots
    /\ CacheEmpty /\ ~tokens_loaded
    /\ \A d \in DOMAIN pc : d # c => pc[d] = "idle"

ObserveEnter(c) ==
    /\ cohortOpen' = FALSE
    /\ UNCHANGED << cohort, cohortFetches >>
    /\ scen' = IF ScenarioStarts(c)
               THEN [leader |-> c, waiters |-> {},
                     saved0 |-> stats.factory_queries_saved, done |-> FALSE]
               ELSE scen

ObserveFetch(c) ==
    /\ IF c \in cohort /\ lastFetch' = "ok"
       THEN cohortFetches' = cohortFetches + 1 /\ UNCHANGED << cohort, cohortOpen >>
       ELSE CohortReset
    /\ scen' = IF scen.leader = c /\ pc[c] = "refreshing"
               THEN [scen EXCEPT !.done = TRUE] ELSE scen

ObserveAck == CohortReset /\ scen' = ScenOff

ScenarioCalls == NumScenarioBots + 1

ScenCall(c) == calls < ScenarioCalls /\ CallStep(c, FALSE) /\ ObserveCall(c) /\ UNCHANGED << refVars, whVars, otherVars >>
ScenEnter(c) == EnterStep(c) /\ ObserveEnter(c) /\ UNCHANGED << refVars, whVars, otherVars >>
ScenRefreshDone(c) == RefreshStep(c) /\ ObserveFetch(c) /\ UNCHANGED << refVars, whVars, otherVars >>
ScenWaitEnds(c) == WaitStep(c) /\ UNCHANGED << obsVars, refVars, whVars, otherVars >>
ScenFallbackDone(c) == FallbackStep(c) /\ ObserveFetch(c) /\ UNCHANGED << refVars, whVars, otherVars >>
ScenAck(c) == AckStep(c) /\ ObserveAck /\ UNCHANGED << refVars, whVars, otherVars >>
\* the calls of a cohort are concurrent: a clock advance ends it
ScenTick == TickStep /\ CohortReset /\ UNCHANGED << scen, refVars, whVars, otherVars >>

\* the manager after register_bot(c, "F1") for each bot of the scenario in turn
ScenarioInit ==
    /\ tokens = EmptyMap
    /\ tradeable_tokens = <<>>
    /\ last_refresh = NoTime
    /\ refresh_in_progress = FALSE
    /\ factory_contract = "F1"
    /\ current_factory_address = "F1"
    /\ coordinator_bot = BotNames[1]
    /\ tokens_loaded = FALSE
    /\ loading_event = FALSE
    /\ stats = ZeroStats
    /\ registered_bots = [i \in 1..NumScenarioBots |-> BotNames[i]]
    /\ data_lock = None
    /\ pc = [c \in ScenarioBots |-> "idle"]
    /\ force_arg = [c \in ScenarioBots |-> FALSE]
    /\ ret = [c \in ScenarioBots |-> <<>>]
    /\ now = 0
    /\ fetched = [c \in ScenarioBots |-> 0]
    /\ calls = 0
    /\ invalidated = FALSE
    /\ mustFetch = [c \in ScenarioBots |-> FALSE]
    /\ lastFetch = "none"
    /\ leader_left = FALSE
    /\ forced_call = "none"
    /\ held = [c \in DOMAIN pc |-> NoRef]
    /\ cohort = {}
    /\ cohortOpen = FALSE
    /\ cohortFetches = 0
    /\ scen = ScenOff
    /\ InitNotifier
    /\ InitOther
    /\ InitConstructed

ScenarioNext ==
    \/ \E c \in ScenarioBots : ScenCall(c)
    \/ \E c \in ScenarioBots : ScenEnter(c)
    \/ \E c \in ScenarioBots : ScenRefreshDone(c)
    \/ \E c \in ScenarioBots : ScenWaitEnds(c)
    \/ \E c \in ScenarioBots : ScenFallbackDone(c)
    \/ \E c \in ScenarioBots : ScenAck(c)
    \/ ScenTick

ScenarioSpec == ScenarioInit /\ [][ScenarioNext]_vars

(***************************************************************************)
(* The notifier's threads.  A handler runs as one step: batch_lock is held *)
(* by _queue_update and by flush_timer for all of their work.              *)
(***************************************************************************)
Flushed(r) == r.via \in {"size", "timer", "priority"}
\* what a step that is not a heartbeat turn leaves of the history
RecordFlush ==
    /\ flush_count' = flush_count + (IF Flushed(request') THEN 1 ELSE 0)
    /\ size_flush_ok' = (size_flush_ok /\
                         (request'.via = "size" =>
                              request'.details.batchedUpdates = max_batch_size - 1))
    /\ flushed_events' = flushed_events +
                             (IF Flushed(request')
                              THEN 1 + request'.details.batchedUpdates ELSE 0)
    /\ batch_start' = IF pending_updates' = <<>> THEN NoTime
                      ELSE IF pending_updates = <<>> THEN At(clock)
                      ELSE batch_start
    /\ UNCHANGED << computed_interval, hb_failed, delivery >>
\* 257: whether send_update(action_type) appends to pending_updates at time t
Accepted(action_type, t) ==
    /\ ~(InBackoff(Self, t) /\ action_type \notin CriticalActions)
    /\ action_type \notin DirectActions

\* the bot thread calls send_update(action_type, details)
SendUpTo(limit, action_type, success) ==
    /\ sends < limit
    /\ Becomes(send_update(Self, action_type, success, clock))
    /\ last_send' = action_type
    /\ sends' = sends + 1
    /\ IF Accepted(action_type, clock)
       THEN /\ enq_count' = enq_count + 1
            /\ gaps_ok' = (gaps_ok /\ (last_enqueue = NoTime
                                       \/ clock - last_enqueue[1] < batch_timeout))
            /\ last_enqueue' = At(clock)
       ELSE UNCHANGED << enq_count, gaps_ok, last_enqueue >>
    /\ RecordFlush
    /\ UNCHANGED << clock, hb_wake, coordVars, otherVars >>
SendUpdate(action_type, success) == SendUpTo(MaxSends, action_type, success)

TimerDue == timer_threads # <<>> /\ Head(timer_threads) <= clock
\* a flush_timer thread wakes up
TimerFires(success) ==
    /\ TimerDue
    /\ Becomes(flush_timer(Self, success, clock))
    /\ last_send' = "none"
    /\ RecordFlush
    /\ UNCHANGED << clock, hb_wake, sends, enq_count, gaps_ok, last_enqueue, coordVars, otherVars >>

\* one turn of heartbeat_worker, woken at time t
HeartbeatStep(success, t) ==
    /\ Becomes(heartbeat_worker(Self, success, t))
    /\ hb_wake' = t + worker_sleep
    /\ last_send' = "none"
    /\ computed_interval' = IntervalFor(t - last_significant_activity)
    /\ hb_failed' = (hb_failed \/ (request'.via = "heartbeat" /\ ~request'.success))
    /\ UNCHANGED << sends, enq_count, flush_count, gaps_ok, last_enqueue,
                    size_flush_ok, flushed_events, batch_start, delivery, coordVars, otherVars >>
HeartbeatDue(success) ==
    /\ hb_wake <= clock
    /\ HeartbeatStep(success, clock)
    /\ UNCHANGED clock

\* a second passes; a thread whose sleep is over runs before the next one does
Advance ==
    /\ clock < StartClock + MaxElapsed
    /\ ~TimerDue
    /\ clock < hb_wake
    /\ clock' = clock + 1
    /\ request' = NoRequest
    /\ last_send' = "none"
    /\ UNCHANGED << whProgVars, hb_wake, whHistVars, coordVars, otherVars >>

\* the next turn of heartbeat_worker when nothing else runs in between
HeartbeatTurn(success) ==
    /\ hb_wake <= StartClock + MaxHeartbeatTicks * worker_sleep
    /\ clock' = hb_wake
    /\ HeartbeatStep(success, hb_wake)

\* the bot thread calls send_update with an action that is sent without batching,
\* and the endpoint answers the request with response
Deliver(action_type, response) ==
    /\ sends < MaxSends
    /\ LET answer == send_webhook_request(response)
       IN /\ Becomes(send_update(Self, action_type, answer.success, clock))
          /\ delivery' = IF request' = NoRequest THEN NoDelivery
                         ELSE [response |-> response, attempts |-> answer.attempts]
    /\ last_send' = action_type
    /\ sends' = sends + 1
    /\ UNCHANGED << computed_interval, enq_count, flush_count, gaps_ok, last_enqueue,
                    size_flush_ok, hb_failed, flushed_events, batch_start, clock, hb_wake,
                    coordVars, otherVars >>

NotifierInit == InitManager(Bots) /\ InitConstructed
\* the bot thread sending updates, the flush_timer threads and the heartbeat
BatchNext ==
    \/ \E a \in SendActions, success \in BOOLEAN : SendUpdate(a, success)
    \/ \E success \in BOOLEAN : TimerFires(success)
    \/ \E success \in BOOLEAN : HeartbeatDue(success)
    \/ Advance
BatchSpec == NotifierInit /\ [][BatchNext]_vars
\* the bot thread sending updates that are not batched
DeliveryNext ==
    \/ \E a \in DirectActions, r \in Responses : Deliver(a, r)
    \/ Advance
DeliverySpec == NotifierInit /\ [][DeliveryNext]_vars
\* the oldest flush_timer thread sleeps until its wake-up time while nothing
\* else runs
SleepEnds ==
    /\ timer_threads # <<>>
    /\ clock < Head(timer_threads)
    /\ clock' = Head(timer_threads)
    /\ request' = NoRequest
    /\ last_send' = "none"
    /\ UNCHANGED << whProgVars, hb_wake, whHistVars, coordVars, otherVars >>
\* the bot thread sending batched updates in bursts, and the flush_timer threads
FlushNext ==
    \/ \E a \in BatchedActions, success \in BOOLEAN : SendUpdate(a, success)
    \/ \E success \in BOOLEAN : TimerFires(success)
    \/ SleepEnds
FlushSpec == NotifierInit /\ [][FlushNext]_vars
\* the bot thread sending batched updates early enough for their timers to end
\* before the clock's bound and before the first turn of heartbeat_worker, and
\* the flush_timer threads, which run when their sleep is over
MaxBurstSends == 7
BurstActions == {"hold"}
BurstSend(action_type, success) ==
    /\ clock + batch_timeout <= Min(StartClock + MaxElapsed, hb_wake)
    /\ SendUpTo(MaxBurstSends, action_type, success)
TimerNext ==
    \/ \E a \in BurstActions, success \in BOOLEAN : BurstSend(a, success)
    \/ \E success \in BOOLEAN : TimerFires(success)
    \/ Advance
TimerFairness ==
    /\ WF_vars(Advance)
    /\ WF_vars(\E success \in BOOLEAN : TimerFires(success))
TimerSpec == NotifierInit /\ [][TimerNext]_vars /\ TimerFairness
\* the heartbeat_worker thread of a bot that sends nothing
HeartbeatNext == \E success \in BOOLEAN : HeartbeatTurn(success)
HeartbeatSpec == NotifierInit /\ [][HeartbeatNext]_vars

(***************************************************************************)
(* Properties of the coordinator.                                          *)
(***************************************************************************)
Fetching(c) == pc[c] \in {"refreshing", "fallback"} /\ FetchRuns
Fresh == last_refresh # NoTime /\ now - last_refresh[1] < refresh_interval
CohortDone == Cardinality(cohort) >= 2 /\ \A c \in cohort : pc[c] = "returned"

\* C1: when two or more registered bots have called get_tokens_for_bot together
\* while the cache was stale and all of them have returned (no fetch having
\* failed), exactly one fetch was executed and all of them were given the same
\* list.
C1_SingleFlight ==
    CohortDone =>
        /\ cohortFetches = 1
        /\ \A c, d \in cohort : ret[c] = ret[d]

\* C2: a get_tokens_for_bot call with force_refresh = False is never executing a
\* fetch while last_refresh is set and now - last_refresh < refresh_interval.
C2_NoFetchWhileFresh ==
    \A c \in DOMAIN pc : (Fetching(c) /\ ~force_arg[c]) => ~Fresh

\* C3: every token held in the cache was fetched from the factory whose address is
\* current_factory_address.
C3_NoFactoryMix ==
    /\ \A k \in DOMAIN tokens : TokenFactory(tokens[k].address) = current_factory_address
    /\ \A i \in 1..Len(tradeable_tokens) :
          TokenFactory(tradeable_tokens[i].address) = current_factory_address

\* C4: after a register_bot that changed the factory address, tokens and
\* tradeable_tokens are empty, last_refresh is unset and neither tokens_loaded nor
\* the load-done event is set until a get_tokens_for_bot call starts; and the first
\* call that starts has executed a fetch when it returns.
C4_InvalidationForcesFetch ==
    /\ invalidated => (CacheEmpty /\ ~tokens_loaded /\ ~loading_event)
    /\ \A c \in DOMAIN pc : (pc[c] = "returned" /\ mustFetch[c]) => fetched[c] >= 1
\* a registered bot that is not the coordinator was the first to call after the
\* factory address changed, and has returned after fetching
C4_Witness ==
    \E c \in DOMAIN pc :
        /\ pc[c] = "returned" /\ mustFetch[c] /\ fetched[c] >= 1
        /\ Registered(c) /\ c # coordinator_bot

\* C5: in the leader-first scenario (every bot registered on the same factory, the
\* cache empty, the coordinator's refresh started first and the other bots called
\* while it ran) no waiter has left the "called" state before the refresh returns;
\* and once all have returned, no waiter has fetched, each was given the list the
\* leader was given, and factory_queries_saved has grown by the number of waiters,
\* which is NumScenarioBots - 1 (3 for the 4 bots of the scenario).
ScenarioComplete ==
    /\ scen.leader # None /\ scen.done
    /\ scen.waiters = DOMAIN pc \ {scen.leader}
    /\ \A c \in DOMAIN pc : pc[c] = "returned"
C5_LeaderFirstScenario ==
    /\ (scen.leader # None /\ ~scen.done) => \A b \in scen.waiters : pc[b] = "called"
    /\ ScenarioComplete =>
          /\ \A b \in scen.waiters : fetched[b] = 0 /\ ret[b] = ret[scen.leader]
          /\ scen.saved0 = 0
          /\ stats.factory_queries_saved = NumScenarioBots - 1
C5_Witness == ScenarioComplete /\ ret[scen.leader] # <<>>

\* C9: under fair scheduling, with every fetch terminating, every started
\* get_tokens_for_bot call returns and every waiting caller leaves its wait; the
\* lock is only ever owned by a call that can take its next step.
LockHeldByRunningCall ==
    data_lock # None => pc[data_lock] \in {"refreshing", "waiting", "fallback"}
C9_EveryCallReturns ==
    /\ \A c \in Bots : (pc[c] = "called") ~> (pc[c] = "returned")
    /\ \A c \in Bots : (pc[c] = "waiting") ~> (pc[c] = "returned")
    /\ []LockHeldByRunningCall
\* a caller that is not the coordinator has just returned from its load after the
\* timeout while another call is still waiting for the lock
C9_Witness ==
    \E c, d \in DOMAIN pc :
        /\ c # d /\ pc[c] = "returned" /\ c # coordinator_bot
        /\ lastFetch # "none" /\ pc[d] = "called"

\* C10 (its last sentence): a fetch that fails, because getAllTokens raises or
\* because per-token reads raise, never replaces a non-empty tradeable list or
\* token map by an empty one.
C10_FailureNeverBlanksCache ==
    [][ lastFetch' \in {"enum_failed", "token_failed"} =>
            /\ tradeable_tokens # <<>> => tradeable_tokens' # <<>>
            /\ tokens # EmptyMap => tokens' # EmptyMap ]_vars

(***************************************************************************)
(* Properties of the registry and of the coordinator role.                 *)
(***************************************************************************)
\* C11 (as the code has it): register_bot of a bot whose factory address differs
\* from current_factory_address makes that bot the coordinator, whoever the
\* coordinator was and whether or not it is still registered.
C11_RegistrantTakesOver ==
    [][ \A c \in Bots, f \in Factories :
            (AddressChanges(f) /\ register_bot(c, f)) => coordinator_bot' = c ]_vars
\* the second bot of the registry is the coordinator right after its register_bot
\* changed the factory address, while the first one is still registered
C11_Witness ==
    /\ invalidated
    /\ Len(registered_bots) = 2
    /\ coordinator_bot = registered_bots[2]
\* C11 (as the specification states it): register_bot of a bot whose factory
\* address differs from current_factory_address leaves coordinator_bot as it was
\* while the coordinator is still registered.
C11_LeaderKept ==
    [][ ( /\ current_factory_address # None
          /\ current_factory_address' # current_factory_address
          /\ Registered(coordinator_bot) )
        => coordinator_bot' = coordinator_bot ]_vars


\* C12: coordinator_bot is None exactly when registered_bots is empty, and
\* otherwise it names a registered bot, in every state reached by register_bot,
\* unregister_bot, cleanup and the calls between them.
C12_LeaderIsRegistered ==
    /\ (coordinator_bot = None) <=> (registered_bots = <<>>)
    /\ coordinator_bot # None => Registered(coordinator_bot)
\* the coordinator has just unregistered while another bot remained
C12_Witness ==
    /\ leader_left
    /\ registered_bots # <<>>
    /\ coordinator_bot = registered_bots[1]

\* C13: the first get_tokens_for_bot that starts after a force_refresh of a
\* manager that has a factory contract, made by the coordinator or by another bot,
\* has run _refresh_tokens by the time it returns.
C13_ForcedCallFetches ==
    \A c \in DOMAIN pc :
        (forced_call = c /\ pc[c] = "returned") => fetched[c] >= 1
\* a bot that is not the coordinator made the first call after a force_refresh of
\* a loaded cache and has returned from it
C13_Witness ==
    \E c \in DOMAIN pc :
        /\ forced_call = c /\ pc[c] = "returned"
        /\ coordinator_bot # None /\ c # coordinator_bot
        /\ fetched[c] >= 1 /\ tradeable_tokens # <<>>

\* C14: an assignment a caller makes to a value it was given, the list of dicts
\* of get_tokens_for_bot or the record of get_token_by_address, leaves
\* self.tokens and self.tradeable_tokens as they were.
C14_ReturnedValuesAreCopies ==
    [][ (\E c \in Bots : ConsumerWritesRecord(c) \/ ConsumerWritesResult(c))
            => UNCHANGED << tokens, tradeable_tokens >> ]_vars

(***************************************************************************)
(* The statistics specification: the notifier's threads record delivery    *)
(* outcomes while get_stats is called.                                     *)
(***************************************************************************)
RecRest == << last_heartbeat_sent, adaptive_heartbeat_interval,
              consecutive_heartbeat_failures, last_significant_activity,
              pending_updates, batch_timer, timer_threads, clock, hb_wake,
              whStepVars, whHistVars, coordVars, simpleVars, ctorVars >>
RecStart(th, success) ==
    /\ Started < MaxRecorded
    /\ ReadTotal(th, success)
    /\ UNCHANGED RecRest
RecCount(th) == StoreTotal(th) /\ UNCHANGED RecRest
RecRead(th) == ReadOutcome(th) /\ UNCHANGED RecRest
RecDone(th) == StoreOutcome(th) /\ UNCHANGED RecRest
GetStats == get_stats /\ UNCHANGED RecRest
StatsNext ==
    \/ \E th \in Recorders, success \in BOOLEAN : RecStart(th, success)
    \/ \E th \in Recorders : RecCount(th)
    \/ \E th \in Recorders : RecRead(th)
    \/ \E th \in Recorders : RecDone(th)
    \/ GetStats
StatsSpec == NotifierInit /\ [][StatsNext]_vars

(***************************************************************************)
(* Properties of the notifier.                                             *)
(***************************************************************************)
CeilDiv(n, m) == (n + m - 1) \div m

\* C6: a network request made while the consecutive-failure counter is at the
\* threshold and the backoff window has not elapsed carries a critical action
\* (startup, shutdown, error), whether it is made by send_update, by a size- or
\* timer-triggered flush or by a scheduled heartbeat; and every send_update of a
\* critical action makes a network request for it.
C6_BreakerBlocksNonCritical ==
    /\ (request # NoRequest /\ request.in_backoff) => request.action \in CriticalActions
    /\ last_send \in CriticalActions =>
           (request.action = last_send /\ request.via = "direct")

\* C7: while every event was enqueued less than batch_timeout after the one
\* before it, the number of flushes never exceeds ceil(n / max_batch_size) for the
\* n events enqueued so far, it is exactly that once the buffer is empty again, and
\* every size-triggered flush recorded batchedUpdates = max_batch_size - 1.
C7_FlushesPerBurst ==
    (gaps_ok /\ enq_count > 0) =>
        /\ flush_count <= CeilDiv(enq_count, max_batch_size)
        /\ pending_updates = <<>> => flush_count = CeilDiv(enq_count, max_batch_size)
        /\ size_flush_ok

\* C8: with no significant activity since the notifier was constructed, from one
\* turn of heartbeat_worker to the next the adaptive interval does not decrease
\* and stays at most max_heartbeat_interval as long as no heartbeat has failed; and
\* a turn whose heartbeat fails leaves an interval strictly below the one it
\* computed, unless that was min_heartbeat_interval.
C8_AdaptiveInterval ==
    [][ (last_significant_activity' = StartClock /\ computed_interval # 0) =>
            /\ ~hb_failed' =>
                   /\ adaptive_heartbeat_interval' >= adaptive_heartbeat_interval
                   /\ adaptive_heartbeat_interval' <= max_heartbeat_interval
            /\ (request'.via = "heartbeat" /\ ~request'.success) =>
                   \/ adaptive_heartbeat_interval' < computed_interval'
                   \/ computed_interval' = min_heartbeat_interval ]_vars

\* C15 (its second part): a delivery whose request ended in a timeout or in a
\* connection error has made a further attempt.
C15_TransportErrorsRetried ==
    delivery.response \in {"timeout", "connection_error"} => delivery.attempts >= 2

\* C16: the first request made after the breaker opened and its backoff window
\* elapsed, here a scheduled heartbeat, leaves the breaker open for a new window
\* if it fails and leaves the consecutive-failure counter at zero if it succeeds.
C16_HalfOpenProbe ==
    [][ ( /\ webhook_stats.consecutive_failures >= max_consecutive_failures
          /\ request'.via = "heartbeat" )
        => /\ ~request'.success =>
                  /\ webhook_stats'.consecutive_failures >= max_consecutive_failures
                  /\ clock' - last_failure_time' < failure_backoff_time
           /\ request'.success => webhook_stats'.consecutive_failures = 0 ]_vars

\* C17: when a send_update of an action that is sent without batching (startup,
\* shutdown, error, insufficient_funds) has made its request, pending_updates is
\* empty: what was queued before went out with it.
C17_DirectSendFlushes ==
    (last_send \in DirectActions /\ request.via = "direct") => pending_updates = <<>>

\* C18: a send_update of an action that is batched makes no network request in
\* the calling thread: the step of the call ends with the event appended and no
\* request made.
C18_QueuedSendMakesNoRequest ==
    (last_send # "none" /\ last_send \notin DirectActions) => request = NoRequest

\* the updates a flush of the step just taken had before it: the buffer, with the
\* update of the call itself appended when the call's append filled the batch
FlushedBatch ==
    IF request'.via = "size"
    THEN Append(pending_updates,
                [action |-> last_send', priority |-> get_action_priority(last_send')])
    ELSE pending_updates
\* the place of update i of batch b by descending priority, earlier first among
\* equal priorities
Rank(b, i) ==
    1 + Cardinality({k \in 1..Len(b) :
                        \/ b[k].priority > b[i].priority
                        \/ (b[k].priority = b[i].priority /\ k < i)})
AtRank(b, r) == b[CHOOSE i \in 1..Len(b) : Rank(b, i) = r]
\* C19: a flush of n >= 1 updates makes exactly one request; its action is that of
\* the update of highest priority, the earliest queued among equals; for n > 1 it
\* carries batchedUpdates = n - 1; otherActions are the actions of the next
\* min(3, n - 1) updates by descending priority; and the buffer is empty after it.
C19_FlushSendsBestFirst ==
    [][ Flushed(request') =>
            LET b == FlushedBatch
                n == Len(b)
            IN /\ n >= 1
               /\ webhook_stats'.total_sent = webhook_stats.total_sent + 1
               /\ request'.action = AtRank(b, 1).action
               /\ n > 1 => request'.details.batchedUpdates = n - 1
               /\ Len(request'.details.otherActions) = Min(3, n - 1)
               /\ \A j \in 1..Min(3, n - 1) :
                      request'.details.otherActions[j] = AtRank(b, j + 1).action
               /\ pending_updates' = <<>> ]_vars
\* a timer-triggered flush of four updates has sent "sell", queued before "buy" of
\* the same priority, with the three others summarised in descending priority
C19_Witness ==
    /\ request.via = "timer"
    /\ request.action = "sell"
    /\ request.details.batchedUpdates = 3
    /\ request.details.otherActions = << "buy", "hold", "balance_alert" >>

\* C20: every update appended to pending_updates is either still in it or was
\* sent or summarised by exactly one flush, whether the flush's request succeeded
\* or failed: the updates the flushes have accounted for and the updates pending
\* add up to the updates accepted.
C20_FlushedExactlyOnce ==
    flushed_events + Len(pending_updates) = enq_count
\* a timer-triggered flush of several updates has failed and the buffer is empty
C20_Witness ==
    /\ request.via = "timer"
    /\ ~request.success
    /\ request.details.batchedUpdates >= 1
    /\ pending_updates = <<>>
    /\ flushed_events = enq_count

\* C21: a caller that is blocked in loading_event.wait does not own data_lock, so
\* that the coordinator, register_bot, unregister_bot and get_stats can take it.
C21_WaiterReleasesLock ==
    \A c \in DOMAIN pc : pc[c] = "waiting" => data_lock # c

\* C22 (its case of a cache older than refresh_interval): a call by a bot that is
\* not the coordinator which finds the cache loaded but stale and returns by way
\* of loading_event returns a list that a refresh produced after that: the cache
\* is no longer stale when it returns.
C22_SignalledListIsFresh ==
    [][ \A c \in DOMAIN pc :
            ( /\ pc[c] = "called" /\ pc'[c] = "returned"
              /\ ~is_coordinator(c)
              /\ last_refresh # NoTime /\ needs_refresh )
            => ~needs_refresh' ]_vars

\* C23: in every state at most one thread is inside _refresh_tokens, whether as
\* the coordinator (208) or in the load after the wait timed out (230), with four
\* bots calling get_tokens_for_bot concurrently.
C23_OneFetchAtATime ==
    Cardinality({c \in DOMAIN pc : Fetching(c)}) <= 1
\* a bot is fetching after its wait timed out while the coordinator and a third
\* bot, both of which would fetch or wait, are queued for data_lock
C23_Witness ==
    \E c, d, e \in DOMAIN pc :
        /\ c # d /\ d # e /\ c # e
        /\ pc[c] = "fallback" /\ FetchRuns
        /\ pc[d] = "called" /\ is_coordinator(d)
        /\ pc[e] = "called"

\* C24: in every state tradeable_tokens holds exactly the records of self.tokens
\* whose state is TRADING (1) or RESUMED (4), each once, and each is the record
\* self.tokens holds under its address: both come from the same refresh.
C24_TradeableIsFilteredView ==
    /\ \A i \in 1..Len(tradeable_tokens) :
           /\ IsTradeableState(tradeable_tokens[i].state)
           /\ Lower(tradeable_tokens[i].address) \in DOMAIN tokens
           /\ tokens[Lower(tradeable_tokens[i].address)] = tradeable_tokens[i]
    /\ \A k \in DOMAIN tokens :
           IsTradeableState(tokens[k].state) =>
               Cardinality({i \in 1..Len(tradeable_tokens) : tradeable_tokens[i] = tokens[k]}) = 1
    /\ \A i, j \in 1..Len(tradeable_tokens) :
           tradeable_tokens[i].address = tradeable_tokens[j].address => i = j
\* a refresh has replaced a cache of two tradeable tokens by one that holds a
\* halted token (state 3) beside a tradeable one
C24_Witness ==
    /\ Cardinality(DOMAIN tokens) = 2
    /\ Len(tradeable_tokens) = 1
    /\ \E k \in DOMAIN tokens : tokens[k].state = 3
    /\ lastFetch = "ok"

\* C25 (its first part): when a flush_timer thread has flushed the buffer, the
\* last update was queued at least batch_timeout before: every enqueue restarts
\* the quiet period.
C25_TimerFlushAfterQuietPeriod ==
    (request.via = "timer" /\ last_enqueue # NoTime) =>
        clock - last_enqueue[1] >= batch_timeout

\* C26 (its consequence): two scheduled heartbeats that heartbeat_worker attempts
\* in turns that follow one another are at least min_heartbeat_interval apart,
\* also when the earlier one failed.
C26_HeartbeatAttemptsSpaced ==
    [][ (request.via = "heartbeat" /\ request'.via = "heartbeat") =>
            clock' - clock >= min_heartbeat_interval ]_vars

(***************************************************************************)
(* Properties of the simple loader.                                        *)
(***************************************************************************)
\* the last completed load of the simple loader is within the refresh interval
SimpleLoadFresh == simple_last_loaded # NoTime /\ ~simple_needs_refresh
\* C27: a get_tokens call made while the last completed load is within the
\* refresh interval is answered from the cache, without a factory load,
\* whatever that load found
C27_FreshLoadIsShared ==
    [][ (SimpleLoadFresh /\ simple_step' # "none") => simple_step' = "cached" ]_vars

(***************************************************************************)
(* Properties of the construction.                                         *)
(***************************************************************************)
\* the step belongs to some thread's SharedTokenManager() call
ConstructionStep == ctor' # ctor
\* C28: every construction yields the one instance, and no step of a
\* construction changes the registered consumers, the leader, the cache or
\* the statistics
C28_ConstructionKeepsState ==
    [][ /\ instances' <= 1
        /\ ConstructionStep =>
               /\ registered_bots' = registered_bots
               /\ coordinator_bot' = coordinator_bot
               /\ tokens' = tokens
               /\ tradeable_tokens' = tradeable_tokens
               /\ stats' = stats ]_vars

(***************************************************************************)
(* Properties of the statistics.                                           *)
(***************************************************************************)
\* C29: in every dict get_stats returns, total_sent = successful + failed
C29_ObservedTotalsAgree == observed.total_sent = observed.successful + observed.failed

(***************************************************************************)
(* Properties of the flush timer.                                          *)
(***************************************************************************)
Buffered == pending_updates # <<>>
\* the thread batch_timer refers to is asleep: it is the youngest flush_timer
\* thread, and it wakes up no later than batch_timeout after the oldest
\* buffered update was queued
TimerArmed ==
    /\ batch_timer # NoTimer
    /\ timer_threads # <<>>
    /\ timer_threads[Len(timer_threads)] = batch_timer[1]
    /\ batch_timer[1] <= batch_start[1] + batch_timeout
====
